---- MODULE Spec2Model ----
(***************************************************************************)
(* Model of sb3/train_ppo.py: the click command `train`, a single linear   *)
(* pipeline of calls into wandb, stable-baselines3 and sb3-contrib.        *)
(* Every call into a library either returns or raises; a raised exception  *)
(* is never caught by train, so it ends the run at that statement.         *)
(***************************************************************************)
EXTENDS Integers, Sequences, FiniteSets, TLC

(* ---------------- bounds of the explored inputs ---------------- *)
MaxEvalFreq == 33
MaxTimesteps == 1
MaxEvalEpisodes == 1

(* ---------------- program constants ---------------- *)
n_envs == 16
n_eval_envs == 10

(* ---------------- input domains ---------------- *)
MapSizes == {"4", "10", "7"}
OutputFolders == {"out"}
LoadPaths == {"None", "", "ckpt.zip"}
Timestrings == {"2024-01-01T00:00:00", "2024-01-01T00:00:01"}
EvalFreqs == (0 - MaxEvalFreq)..MaxEvalFreq
TimestepBudgets == (0 - 1)..MaxTimesteps
EvalEpisodeCounts == (0 - 1)..MaxEvalEpisodes

Unbound == "<unbound>"
NoObj == [kind |-> "unbound"]

(* ---------------- pure helpers, as the code computes them ---------------- *)

\* Python's max(a, b) on integers.
PyMax(a, b) == IF a >= b THEN a ELSE b

\* Python truthiness of the --load option value (None and "" are falsy).
Truthy(s) == s # "None" /\ s # ""

\* click.Choice(["4", "10"]) of the map_size argument.
MapSizeChoice_any == MapSizes
MapSizeChoice == {"4", "10"}

\* map_dims = f"{map_size}x{map_size}"
MapDims(ms) == ms \o "x" \o ms

\* base_output = Path(output_folder) / map_dims, rendered by str().
BaseOutput(folder, dims) == folder \o "/" \o dims

\* env_id = f"MicrortsMining{map_dims}F9-v0"
EnvId(dims) == "MicrortsMining" \o dims \o "F9-v0"

\* str(base_output / f"models/{timestring}")
ModelSavePath_runs(base, ts) == base \o "/" \o "runs/" \o ts
ModelSavePath(base, ts) == base \o "/" \o "models/" \o ts

\* str(base_output / f"runs/{timestring}")
TensorboardLog(base, ts) == base \o "/" \o "runs/" \o ts

\* mask_fn(env) returns env.action_mask; the adapter keeps a reference to it.
mask_fn == "env.action_mask"

\* get_wrapper(env) = ActionMasker(env, mask_fn)
get_wrapper_passthrough(e) == e
get_wrapper(e) == [kind |-> "ActionMasker", env |-> e, action_mask_fn |-> mask_fn]

\* make_vec_env(env_id, n_envs=n, wrapper_class=get_wrapper): n monitored
\* instances of the task, each passed through wrapper_class.
make_vec_env(id, n) ==
    [kind |-> "VecEnv",
     envs |-> [i \in 1..n |-> get_wrapper([kind |-> "Monitor", env_id |-> id, rank |-> i])]]

\* VecNormalize(venv, training=..., norm_reward=False); norm_obs keeps its default.
VecNormalize(venv, training) ==
    [kind |-> "VecNormalize", venv |-> venv, training |-> training,
     norm_obs |-> TRUE, norm_reward |-> FALSE, closed |-> FALSE]

\* if mask: Alg, EvalCallbackCls = MaskablePPO, MaskableEvalCallback else PPO, EvalCallback
SelectVariant_naive_callback(m) ==
    IF m THEN [Alg |-> "MaskablePPO", EvalCallbackCls |-> "EvalCallback"]
         ELSE [Alg |-> "PPO", EvalCallbackCls |-> "EvalCallback"]
SelectVariant(m) ==
    IF m THEN [Alg |-> "MaskablePPO", EvalCallbackCls |-> "MaskableEvalCallback"]
         ELSE [Alg |-> "PPO", EvalCallbackCls |-> "EvalCallback"]

\* eval_freq=max(eval_freq // n_envs, 1); // is floor division, as \div is.
EvalFreqArg_nomax(freq, n) == freq \div n
EvalFreqArg(freq, n) == PyMax(freq \div n, 1)

\* callbacks = [eval_callback]; if use_wandb: callbacks.append(wandb_callback)
CallbackList_prepend(cb, tracking, wcb) == IF tracking THEN <<wcb, cb>> ELSE <<cb>>
CallbackList(cb, tracking, wcb) == IF tracking THEN Append(<<cb>>, wcb) ELSE <<cb>>

(* ---------------- state ---------------- *)
VARIABLES
    pc,                  \* position in train
    error,               \* the uncaught exception that ended the run, or "none"
    output_folder, map_size, load_path, total_timesteps, eval_freq,
    eval_episodes, torch_deterministic, mask, use_wandb,   \* the parsed command line
    now,                 \* what datetime.datetime.now() will return
    wandb_run,           \* TRUE once wandb.init has returned
    map_dims, base_output, timestring, cudnn_deterministic, env_id,
    env, eval_env,       \* the two environment handles
    Alg, EvalCallbackCls,
    eval_callback, model, callbacks,
    learn_call,          \* the arguments model.learn was called with
    saved,               \* the paths model.save has written, in order
    trace                \* the library calls made so far, in order

args == <<output_folder, map_size, load_path, total_timesteps, eval_freq,
          eval_episodes, torch_deterministic, mask, use_wandb, now>>
locals == <<map_dims, base_output, timestring, cudnn_deterministic, env_id,
            Alg, EvalCallbackCls, eval_callback, model, callbacks>>
handles == <<env, eval_env>>
effects == <<wandb_run, learn_call, saved>>
vars == <<pc, error, args, locals, handles, effects, trace>>

Init ==
    /\ pc = "parse"
    /\ error = "none"
    /\ output_folder \in OutputFolders
    /\ map_size \in MapSizes
    /\ load_path \in LoadPaths
    /\ total_timesteps \in TimestepBudgets
    /\ eval_freq \in EvalFreqs
    /\ eval_episodes \in EvalEpisodeCounts
    /\ torch_deterministic \in BOOLEAN
    /\ mask \in BOOLEAN
    /\ use_wandb \in BOOLEAN
    /\ now \in Timestrings
    /\ wandb_run = FALSE
    /\ map_dims = Unbound
    /\ base_output = Unbound
    /\ timestring = Unbound
    /\ cudnn_deterministic = FALSE
    /\ env_id = Unbound
    /\ env = NoObj
    /\ eval_env = NoObj
    /\ Alg = Unbound
    /\ EvalCallbackCls = Unbound
    /\ eval_callback = NoObj
    /\ model = NoObj
    /\ callbacks = << >>
    /\ learn_call = NoObj
    /\ saved = << >>
    /\ trace = << >>

\* An exception raised by the call `op` propagates out of train.
Raise(op, exc) ==
    /\ pc' = "raised"
    /\ error' = exc
    /\ trace' = Append(trace, op)

\* The call `op` returns and control moves on to `next`.
Return(op, next) ==
    /\ pc' = next
    /\ error' = error
    /\ trace' = Append(trace, op)

(* ---------------- the steps of train ---------------- *)

\* click parses the command line; a map_size outside the Choice is a usage
\* error raised before the body of train is entered.  The int options take
\* any integer: no range is declared on them.
ParseArgs ==
    /\ pc = "parse"
    /\ IF map_size \in MapSizeChoice
         THEN pc' = "wandb_init" /\ error' = error
         ELSE pc' = "raised" /\ error' = "UsageError"
    /\ UNCHANGED <<args, locals, handles, effects, trace>>

\* if use_wandb: wandb.init(...)
InitTracking ==
    /\ pc = "wandb_init"
    /\ \/ /\ use_wandb
          /\ Return("wandb.init", "setup")
          /\ wandb_run' = TRUE
       \/ /\ use_wandb
          /\ Raise("wandb.init", "TrackingError")
          /\ UNCHANGED wandb_run
       \/ /\ ~use_wandb
          /\ pc' = "setup"
          /\ UNCHANGED <<error, trace, wandb_run>>
    /\ UNCHANGED <<args, locals, handles, learn_call, saved>>

\* map_dims, base_output, timestring, cudnn flag, env_id
Setup ==
    /\ pc = "setup"
    /\ map_dims' = MapDims(map_size)
    /\ base_output' = BaseOutput(output_folder, MapDims(map_size))
    /\ timestring' = now
    /\ cudnn_deterministic' = torch_deterministic
    /\ env_id' = EnvId(MapDims(map_size))
    /\ pc' = "make_env"
    /\ UNCHANGED <<error, args, handles, effects, trace, Alg, EvalCallbackCls,
                   eval_callback, model, callbacks>>

\* env = VecNormalize(make_vec_env(env_id, n_envs=n_envs, ...), norm_reward=False)
MakeEnv ==
    /\ pc = "make_env"
    /\ \/ /\ Return("make_vec_env", "make_eval_env")
          /\ env' = VecNormalize(make_vec_env(env_id, n_envs), TRUE)
       \/ /\ Raise("make_vec_env", "EnvironmentConstructionError")
          /\ UNCHANGED env
    /\ UNCHANGED <<args, locals, eval_env, effects>>

\* eval_env = VecNormalize(make_vec_env(env_id, n_envs=10, ...), training=False, ...)
MakeEvalEnv ==
    /\ pc = "make_eval_env"
    /\ \/ /\ Return("make_vec_env", "select")
          /\ eval_env' = VecNormalize(make_vec_env(env_id, n_eval_envs), FALSE)
       \/ /\ Raise("make_vec_env", "EnvironmentConstructionError")
          /\ UNCHANGED eval_env
    /\ UNCHANGED <<args, locals, env, effects>>

\* if mask: ... else: ...
SelectAlg ==
    /\ pc = "select"
    /\ Alg' = SelectVariant(mask).Alg
    /\ EvalCallbackCls' = SelectVariant(mask).EvalCallbackCls
    /\ pc' = "eval_callback"
    /\ UNCHANGED <<error, args, handles, effects, trace, map_dims, base_output,
                   timestring, cudnn_deterministic, env_id, eval_callback, model,
                   callbacks>>

\* eval_callback = EvalCallbackCls(eval_env, eval_freq=..., n_eval_episodes=...)
MakeEvalCallback ==
    /\ pc = "eval_callback"
    /\ eval_callback' = [kind |-> "callback", cls |-> EvalCallbackCls,
                         eval_env |-> eval_env,
                         eval_freq |-> EvalFreqArg(eval_freq, n_envs),
                         n_eval_episodes |-> eval_episodes]
    /\ pc' = "build_model"
    /\ UNCHANGED <<error, args, handles, effects, trace, map_dims, base_output,
                   timestring, cudnn_deterministic, env_id, Alg, EvalCallbackCls,
                   model, callbacks>>

\* if load_path: model = Alg.load(load_path, env)  else: model = Alg("MlpPolicy", env, ...)
BuildModel_continue_after_failure ==
    /\ pc = "build_model"
    /\ \/ /\ Truthy(load_path)
          /\ Return("Alg.load", "callbacks")
          /\ model' = [kind |-> "model", cls |-> Alg, env |-> env,
                       origin |-> "loaded", tensorboard_log |-> Unbound]
       \/ /\ Truthy(load_path)
          /\ pc' = "callbacks"
          /\ error' = "CheckpointLoadError"
          /\ trace' = Append(trace, "Alg.load")
          /\ model' = [kind |-> "model", cls |-> Alg, env |-> env,
                       origin |-> "failed load", tensorboard_log |-> Unbound]
       \/ /\ ~Truthy(load_path)
          /\ Return("Alg", "callbacks")
          /\ model' = [kind |-> "model", cls |-> Alg, env |-> env,
                       origin |-> "fresh",
                       tensorboard_log |-> TensorboardLog(base_output, timestring)]
       \/ /\ ~Truthy(load_path)
          /\ Raise("Alg", "AgentConstructionError")
          /\ UNCHANGED model
    /\ UNCHANGED <<args, handles, effects, map_dims, base_output, timestring,
                   cudnn_deterministic, env_id, Alg, EvalCallbackCls,
                   eval_callback, callbacks>>
BuildModel ==
    /\ pc = "build_model"
    /\ \/ /\ Truthy(load_path)
          /\ Return("Alg.load", "callbacks")
          /\ model' = [kind |-> "model", cls |-> Alg, env |-> env,
                       origin |-> "loaded", tensorboard_log |-> Unbound]
       \/ /\ Truthy(load_path)
          /\ Raise("Alg.load", "CheckpointLoadError")
          /\ UNCHANGED model
       \/ /\ ~Truthy(load_path)
          /\ Return("Alg", "callbacks")
          /\ model' = [kind |-> "model", cls |-> Alg, env |-> env,
                       origin |-> "fresh",
                       tensorboard_log |-> TensorboardLog(base_output, timestring)]
       \/ /\ ~Truthy(load_path)
          /\ Raise("Alg", "AgentConstructionError")
          /\ UNCHANGED model
    /\ UNCHANGED <<args, handles, effects, map_dims, base_output, timestring,
                   cudnn_deterministic, env_id, Alg, EvalCallbackCls,
                   eval_callback, callbacks>>

\* callbacks = [eval_callback]; if use_wandb: callbacks.append(WandbCallback(...))
MakeCallbacks ==
    /\ pc = "callbacks"
    /\ callbacks' = CallbackList(eval_callback, use_wandb,
                        [kind |-> "callback", cls |-> "WandbCallback",
                         model_save_path |-> ModelSavePath(base_output, timestring)])
    /\ pc' = "learn"
    /\ UNCHANGED <<error, args, handles, effects, trace, map_dims, base_output,
                   timestring, cudnn_deterministic, env_id, Alg, EvalCallbackCls,
                   eval_callback, model>>

\* model.learn(total_timesteps=..., callback=callbacks[, use_masking=mask])
Learn ==
    /\ pc = "learn"
    /\ learn_call' = [kind |-> "learn", cls |-> model.cls,
                      total_timesteps |-> total_timesteps,
                      callback |-> callbacks,
                      use_masking |-> IF mask THEN "True" ELSE "not passed"]
    /\ \/ Return("model.learn", "save")
       \/ \E exc \in {"TrainingFailure", "KeyboardInterrupt"} :
             Raise("model.learn", exc)
    /\ UNCHANGED <<args, locals, handles, wandb_run, saved>>

\* model.save(str(base_output / f"models/{timestring}"))
Save ==
    /\ pc = "save"
    /\ \/ /\ Return("model.save", "close")
          /\ saved' = Append(saved, ModelSavePath(base_output, timestring))
       \/ /\ Raise("model.save", "SaveError")
          /\ UNCHANGED saved
    /\ UNCHANGED <<args, locals, handles, wandb_run, learn_call>>

\* env.close()
Close ==
    /\ pc = "close"
    /\ \/ /\ Return("env.close", "done")
          /\ env' = [env EXCEPT !.closed = TRUE]
       \/ /\ Raise("env.close", "CloseError")
          /\ UNCHANGED env
    /\ UNCHANGED <<args, locals, eval_env, effects>>

Next ==
    \/ ParseArgs
    \/ InitTracking
    \/ Setup
    \/ MakeEnv
    \/ MakeEvalEnv
    \/ SelectAlg
    \/ MakeEvalCallback
    \/ BuildModel
    \/ MakeCallbacks
    \/ Learn
    \/ Save
    \/ Close

Spec == Init /\ [][Next]_vars

(* ---------------- properties ---------------- *)

Range(s) == {s[i] : i \in DOMAIN s}
Count(op) == Cardinality({i \in DOMAIN trace : trace[i] = op})
Before(a, b) == \A i \in DOMAIN trace : \A j \in DOMAIN trace :
                    (trace[i] = a /\ trace[j] = b) => i < j
Terminated == pc \in {"done", "raised"}
Constructed(h) == h # NoObj
AllWrapped(h) == \A i \in DOMAIN h.venv.envs :
                    /\ h.venv.envs[i].kind = "ActionMasker"
                    /\ h.venv.envs[i].action_mask_fn = "env.action_mask"
NoneWrapped(h) == \A i \in DOMAIN h.venv.envs : h.venv.envs[i].kind # "ActionMasker"

\* C1: whenever train has ended and the training environment had been
\* constructed, env.close has been called on it, whichever way train ended.
C1_ReleasedOnEveryExit ==
    (Terminated /\ Constructed(env)) => env.closed

\* C2 (as stated): the ActionMasker adapter is on the instances of a
\* constructed handle exactly when the masking flag is set.
C2_WrappedIffMask ==
    \A h \in {env, eval_env} :
        Constructed(h) => IF mask THEN AllWrapped(h) ELSE NoneWrapped(h)

\* C2 (amended): every instance of every constructed handle carries the
\* ActionMasker adapter reading env.action_mask, for both values of the
\* masking flag; the training handle has 16 instances, the evaluation one 10.
C2_WrappedAlways ==
    /\ Constructed(env) => AllWrapped(env) /\ DOMAIN env.venv.envs = 1..16
    /\ Constructed(eval_env) => AllWrapped(eval_env) /\ DOMAIN eval_env.venv.envs = 1..10

C2_Witness ==
    /\ ~mask
    /\ Constructed(env)
    /\ Constructed(eval_env)
    /\ env.venv.envs[16].kind = "ActionMasker"
    /\ eval_env.venv.envs[10].kind = "ActionMasker"

MatchedPair(a, c) ==
    IF mask THEN a = "MaskablePPO" /\ c = "MaskableEvalCallback"
            ELSE a = "PPO" /\ c = "EvalCallback"

\* C3: the agent class and the evaluation-callback class are a matched pair
\* decided by the masking flag, in the selection itself, in the objects built
\* from it (fresh or loaded agent, evaluation callback) and in the learn call.
C3_MatchedPair ==
    /\ (Alg # Unbound \/ EvalCallbackCls # Unbound) => MatchedPair(Alg, EvalCallbackCls)
    /\ eval_callback # NoObj => MatchedPair(Alg, eval_callback.cls)
    /\ model # NoObj => MatchedPair(model.cls, eval_callback.cls)
    /\ learn_call # NoObj => MatchedPair(learn_call.cls, learn_call.callback[1].cls)

C3_Witness ==
    /\ mask
    /\ learn_call # NoObj
    /\ model.origin = "loaded"
    /\ learn_call.cls = "MaskablePPO"

NonPositiveOption == total_timesteps <= 0 \/ eval_freq <= 0 \/ eval_episodes <= 0

\* C4: with a zero or negative total-timesteps, eval-freq or eval-episodes
\* nothing is ever allocated (no tracking run, environment or agent) and the
\* run ends in the argument error.
C4_NonPositiveRejected ==
    NonPositiveOption =>
        /\ ~wandb_run
        /\ env = NoObj
        /\ eval_env = NoObj
        /\ model = NoObj
        /\ Terminated => error = "UsageError"

\* C5: with a map size other than "4" or "10" the run ends in the usage
\* error at parsing, and no tracking run, environment, agent, learn call or
\* save ever exists.
C5_UnsupportedMapSize ==
    map_size \notin {"4", "10"} =>
        /\ pc \in {"parse", "raised"}
        /\ pc = "raised" => error = "UsageError"
        /\ trace = << >>
        /\ ~wandb_run
        /\ env = NoObj /\ eval_env = NoObj /\ model = NoObj
        /\ learn_call = NoObj
        /\ saved = << >>

C5_Witness == map_size = "7" /\ pc = "raised" /\ error = "UsageError"

\* C6: a failed stage ends the run: the failing call is the last call made,
\* nothing can run after it, and after a failed Alg.load neither model.learn
\* nor model.save has been called.
C6_FailFast ==
    /\ error # "none" => pc = "raised"
    /\ pc = "raised" => ~ENABLED Next
    /\ error = "CheckpointLoadError" =>
          /\ trace[Len(trace)] = "Alg.load"
          /\ "model.learn" \notin Range(trace)
          /\ "model.save" \notin Range(trace)
          /\ "env.close" \notin Range(trace)
          /\ learn_call = NoObj
          /\ saved = << >>
    /\ error = "EnvironmentConstructionError" => model = NoObj /\ learn_call = NoObj
    /\ error \in {"TrainingFailure", "KeyboardInterrupt"} =>
          saved = << >> /\ ~env.closed
    /\ error = "SaveError" => ~env.closed

C6_Witness ==
    /\ pc = "raised"
    /\ error = "CheckpointLoadError"
    /\ Truthy(load_path)
    /\ Constructed(env)

\* C7: the cadence handed to the evaluation callback is the floor of
\* eval_freq / 16 when that is at least 1 and is 1 otherwise, so it is an
\* integer of at least 1 for every eval_freq, small, zero or negative.
C7_EvalCadence ==
    eval_callback # NoObj =>
        LET c == eval_callback.eval_freq IN
        /\ c \in Int
        /\ c >= 1
        /\ eval_freq < 16 => c = 1
        /\ eval_freq >= 16 => 16 * c <= eval_freq /\ eval_freq < 16 * (c + 1)

C7_Witness ==
    /\ eval_callback # NoObj
    /\ eval_freq < 0
    /\ eval_callback.eval_freq = 1

\* C8: with tracking enabled wandb.init is the first call made, so it comes
\* before every environment and agent construction, and the callback list is
\* [evaluation callback, tracking callback]; with tracking disabled wandb.init
\* is never called and the list given to learn is [evaluation callback].
C8_TrackingOrder ==
    /\ use_wandb =>
          /\ (Constructed(env) \/ Constructed(eval_env) \/ model # NoObj) =>
                 wandb_run /\ trace[1] = "wandb.init"
          /\ Before("wandb.init", "make_vec_env")
          /\ Before("wandb.init", "Alg")
          /\ Before("wandb.init", "Alg.load")
          /\ learn_call # NoObj =>
                 /\ Len(learn_call.callback) = 2
                 /\ learn_call.callback[1] = eval_callback
                 /\ learn_call.callback[2].cls = "WandbCallback"
    /\ ~use_wandb =>
          /\ ~wandb_run
          /\ "wandb.init" \notin Range(trace)
          /\ learn_call # NoObj => learn_call.callback = <<eval_callback>>

C8_Witness ==
    /\ use_wandb
    /\ learn_call # NoObj
    /\ Len(learn_call.callback) = 2
    /\ trace[1] = "wandb.init"

\* C9: when train has run to its end, model.save was called exactly once,
\* after model.learn and before env.close, with the path
\* <output_folder>/<map_size>x<map_size>/models/<run timestamp>, and
\* env.close was called exactly once.
C9_SaveOnceThenClose ==
    pc = "done" =>
        /\ saved = <<output_folder \o "/" \o map_size \o "x" \o map_size
                        \o "/models/" \o now>>
        /\ Count("model.save") = 1
        /\ Count("env.close") = 1
        /\ Count("model.learn") = 1
        /\ Before("model.learn", "model.save")
        /\ Before("model.save", "env.close")
        /\ env.closed

C9_Witness ==
    /\ pc = "done"
    /\ map_size = "10"
    /\ saved = <<"out/10x10/models/2024-01-01T00:00:00">>
    /\ env.closed

\* C10: when train has run to its end, both the training handle and the
\* evaluation handle have been closed.
C10_AllHandlesReleased ==
    pc = "done" => env.closed /\ eval_env.closed

====
